---- MODULE Spec2Model ----
(***************************************************************************)
(* Model of the Home canvas component (src/unnamed/part_000): one          *)
(* quadrilateral drawn and reshaped with the mouse, with a linear          *)
(* undo/redo history.  The React state cells and the start-point ref are   *)
(* the variables; every event handler is one action.  Each handler runs    *)
(* against the state rendered after the previous event (the effect at      *)
(* lines 45-159 re-registers the listeners whenever rect, isDrawing or     *)
(* draggingPoint change), and every state updater runs exactly once per    *)
(* call (src/web/src/main.tsx mounts the tree without StrictMode).         *)
(* Spec follows the interaction state machine; SpecRender follows it       *)
(* together with the image loads of the effect and the canvas they paint.  *)
(***************************************************************************)
EXTENDS Integers, Sequences, FiniteSets, TLC

(* ---------------------------------------------------------------------- *)
(* Bounds of the model                                                     *)
(* ---------------------------------------------------------------------- *)
MaxSteps == 7
MaxRenderSteps == 4
MaxLoads == 2

(* ---------------------------------------------------------------------- *)
(* Values                                                                  *)
(* ---------------------------------------------------------------------- *)
Pt(px, py) == [x |-> px, y |-> py]

\* Pointer positions (offsetX, offsetY) the events are drawn from.  From
\* (100,100): (102,101) is closer than 5, (103,104) is at exactly 5,
\* (106,100) is at exactly 6 and (200,150) is far away.
EventPoints ==
  { Pt(100, 100), Pt(102, 101), Pt(103, 104), Pt(106, 100), Pt(200, 150) }

\* The two falsy values a Rectangle | null state cell and the ref can hold.
Null == [tag |-> "null"]
Undefined == [tag |-> "undefined"]

\* JavaScript truthiness of a rect / ref value: objects are truthy,
\* null and undefined are not.
Truthy(v) == v # Null /\ v # Undefined

pointRadius == 6
clickDistance == 5

\* Math.sqrt(dx * dx + dy * dy) < d for integer dx, dy, d: the square root
\* is monotone and exact on perfect squares, so the comparison is the
\* comparison of the squares.
DistLess(px, py, q, d) ==
  LET dx == px - q.x
      dy == py - q.y
  IN  dx * dx + dy * dy < d * d

\* Math.sqrt(dx * dx + dy * dy) <= d
DistLeq(px, py, q, d) ==
  LET dx == px - q.x
      dy == py - q.y
  IN  dx * dx + dy * dy <= d * d

\* Property order of every Rectangle object the component builds (the
\* literals at lines 55-60 and 82-87; the spread at 92-95 keeps it).
RectKeys == << "topLeft", "topRight", "bottomLeft", "bottomRight" >>

\* draggingPoint === null
NoKey == "null"

(* ---------------------------------------------------------------------- *)
(* The component state as one record, and the handlers as functions on it  *)
(* ---------------------------------------------------------------------- *)
\* useState / useRef initial values (lines 14-21)
InitState ==
  [ rect          |-> Null,
    isDrawing     |-> FALSE,
    draggingPoint |-> NoKey,
    undoStack     |-> << >>,
    redoStack     |-> << >>,
    startPoint    |-> Null ]

\* First corner, in property order, within pointRadius of (px, py); Null if
\* there is none.  i is the position the iteration has reached.
\* Variant: the corners are tried in the opposite order, so of several
\* corners within reach the one declared last wins.
RECURSIVE getDraggingPointFrom_lastWins(_, _, _, _)
getDraggingPointFrom_lastWins(r, px, py, i) ==
  IF i > Len(RectKeys) THEN Null
  ELSE LET k == RectKeys[Len(RectKeys) + 1 - i]
       IN  IF DistLeq(px, py, r[k], pointRadius)
           THEN [key |-> k, point |-> r[k]]
           ELSE getDraggingPointFrom_lastWins(r, px, py, i + 1)

RECURSIVE getDraggingPointFrom(_, _, _, _)
getDraggingPointFrom(r, px, py, i) ==
  IF i > Len(RectKeys) THEN Null
  ELSE IF DistLeq(px, py, r[RectKeys[i]], pointRadius)
       THEN [key |-> RectKeys[i], point |-> r[RectKeys[i]]]
       ELSE getDraggingPointFrom(r, px, py, i + 1)

getDraggingPoint(r, px, py) ==
  IF ~Truthy(r) THEN Null ELSE getDraggingPointFrom(r, px, py, 1)

\* Variant: a pointer-down that misses every corner starts a new shape.
handleMouseDown_restartOnMiss(s, p) ==
  LET fresh == [s EXCEPT !.rect = [ topLeft     |-> Pt(p.x, p.y),
                                    topRight    |-> Pt(p.x, p.y),
                                    bottomLeft  |-> Pt(p.x, p.y),
                                    bottomRight |-> Pt(p.x, p.y) ],
                         !.redoStack = << >>,
                         !.isDrawing = TRUE,
                         !.startPoint = Pt(p.x, p.y)]
  IN  IF ~Truthy(s.rect)
      THEN fresh
      ELSE LET dragging == getDraggingPoint(s.rect, p.x, p.y)
           IN  IF Truthy(dragging)
               THEN [s EXCEPT !.draggingPoint = dragging.key]
               ELSE fresh

\* Variant: the seed shape is committed to history already at pointer-down.
handleMouseDown_commitsAtDown(s, p) ==
  IF ~Truthy(s.rect)
  THEN LET seed == [ topLeft     |-> Pt(p.x, p.y),
                     topRight    |-> Pt(p.x, p.y),
                     bottomLeft  |-> Pt(p.x, p.y),
                     bottomRight |-> Pt(p.x, p.y) ]
       IN  [s EXCEPT !.rect = seed,
                     !.undoStack = Append(s.undoStack, seed),
                     !.redoStack = << >>,
                     !.isDrawing = TRUE,
                     !.startPoint = Pt(p.x, p.y)]
  ELSE LET dragging == getDraggingPoint(s.rect, p.x, p.y)
       IN  IF Truthy(dragging)
           THEN [s EXCEPT !.draggingPoint = dragging.key]
           ELSE s

handleMouseDown(s, p) ==
  IF ~Truthy(s.rect)
  THEN [s EXCEPT !.rect = [ topLeft     |-> Pt(p.x, p.y),
                            topRight    |-> Pt(p.x, p.y),
                            bottomLeft  |-> Pt(p.x, p.y),
                            bottomRight |-> Pt(p.x, p.y) ],
                 !.redoStack = << >>,
                 !.isDrawing = TRUE,
                 !.startPoint = Pt(p.x, p.y)]
  ELSE LET dragging == getDraggingPoint(s.rect, p.x, p.y)
       IN  IF Truthy(dragging)
           THEN [s EXCEPT !.draggingPoint = dragging.key]
           ELSE s

\* Variant: a drag edits the object that is also the newest snapshot, so the
\* top of undoStack follows the live quadrilateral.
handleMouseMove_editsSnapshot(s, p) ==
  IF s.isDrawing /\ Truthy(s.rect)
  THEN [s EXCEPT !.rect = [ topLeft     |-> s.rect.topLeft,
                            topRight    |-> Pt(p.x, s.rect.topLeft.y),
                            bottomLeft  |-> Pt(s.rect.topLeft.x, p.y),
                            bottomRight |-> Pt(p.x, p.y) ]]
  ELSE IF s.draggingPoint # NoKey /\ Truthy(s.rect)
       THEN LET moved == [s.rect EXCEPT ![s.draggingPoint] = Pt(p.x, p.y)]
            IN  [s EXCEPT !.rect = moved,
                          !.undoStack =
                             IF Len(s.undoStack) >= 1
                                  /\ s.undoStack[Len(s.undoStack)] = s.rect
                             THEN [s.undoStack EXCEPT ![Len(s.undoStack)] = moved]
                             ELSE s.undoStack]
       ELSE s

handleMouseMove(s, p) ==
  IF s.isDrawing /\ Truthy(s.rect)
  THEN [s EXCEPT !.rect = [ topLeft     |-> s.rect.topLeft,
                            topRight    |-> Pt(p.x, s.rect.topLeft.y),
                            bottomLeft  |-> Pt(s.rect.topLeft.x, p.y),
                            bottomRight |-> Pt(p.x, p.y) ]]
  ELSE IF s.draggingPoint # NoKey /\ Truthy(s.rect)
       THEN [s EXCEPT !.rect = [s.rect EXCEPT ![s.draggingPoint] = Pt(p.x, p.y)]]
       ELSE s

\* Variant: the click threshold also cancels a release at exactly 5 px.
handleMouseUp_cancelAtThreshold(s, p) ==
  LET r == [s EXCEPT !.isDrawing = FALSE, !.draggingPoint = NoKey]
  IN  IF Truthy(s.startPoint) /\ Truthy(s.rect)
      THEN IF DistLeq(p.x, p.y, s.startPoint, clickDistance)
           THEN [r EXCEPT !.rect = Null]
           ELSE [r EXCEPT !.undoStack = Append(s.undoStack, s.rect),
                          !.redoStack = << >>]
      ELSE r

\* Variant: the commit pushes the snapshot but keeps redoStack.
handleMouseUp_keepRedo(s, p) ==
  LET r == [s EXCEPT !.isDrawing = FALSE, !.draggingPoint = NoKey]
  IN  IF Truthy(s.startPoint) /\ Truthy(s.rect)
      THEN IF DistLess(p.x, p.y, s.startPoint, clickDistance)
           THEN [r EXCEPT !.rect = Null]
           ELSE [r EXCEPT !.undoStack = Append(s.undoStack, s.rect)]
      ELSE r

handleMouseUp(s, p) ==
  LET r == [s EXCEPT !.isDrawing = FALSE, !.draggingPoint = NoKey]
  IN  IF Truthy(s.startPoint) /\ Truthy(s.rect)
      THEN IF DistLess(p.x, p.y, s.startPoint, clickDistance)
           THEN [r EXCEPT !.rect = Null]
           ELSE [r EXCEPT !.undoStack = Append(s.undoStack, s.rect),
                          !.redoStack = << >>]
      ELSE r

\* Variant: the undone entry is appended at the back of redoStack.
handleUndo_redoAtBack(s) ==
  IF Len(s.undoStack) >= 1
  THEN LET newStack == SubSeq(s.undoStack, 1, Len(s.undoStack) - 1)
           last     == s.undoStack[Len(s.undoStack)]
       IN  [s EXCEPT !.redoStack = Append(s.redoStack, last),
                     !.rect = IF Len(newStack) = 0
                              THEN Undefined
                              ELSE newStack[Len(newStack)],
                     !.undoStack = newStack]
  ELSE s

\* Variant: the display keeps showing the entry that was just undone.
handleUndo_showPopped(s) ==
  IF Len(s.undoStack) >= 1
  THEN LET newStack == SubSeq(s.undoStack, 1, Len(s.undoStack) - 1)
           last     == s.undoStack[Len(s.undoStack)]
       IN  [s EXCEPT !.redoStack = << last >> \o s.redoStack,
                     !.rect = last,
                     !.undoStack = newStack]
  ELSE s

handleUndo(s) ==
  IF Len(s.undoStack) >= 1
  THEN LET newStack == SubSeq(s.undoStack, 1, Len(s.undoStack) - 1)
           last     == s.undoStack[Len(s.undoStack)]
       IN  [s EXCEPT !.redoStack = << last >> \o s.redoStack,
                     !.rect = IF Len(newStack) = 0
                              THEN Undefined
                              ELSE newStack[Len(newStack)],
                     !.undoStack = newStack]
  ELSE s

\* Variant: the redone entry is moved between the stacks but not displayed.
handleRedo_noDisplay(s) ==
  IF Len(s.redoStack) > 0
  THEN LET newRedo == Tail(s.redoStack)
           next    == Head(s.redoStack)
       IN  [s EXCEPT !.undoStack = Append(s.undoStack, next),
                     !.redoStack = newRedo]
  ELSE s

handleRedo(s) ==
  IF Len(s.redoStack) > 0
  THEN LET newRedo == Tail(s.redoStack)
           next    == Head(s.redoStack)
       IN  [s EXCEPT !.undoStack = Append(s.undoStack, next),
                     !.rect = next,
                     !.redoStack = newRedo]
  ELSE s

\* Variant: Clear removes the shape and redoStack but keeps undoStack.
handleClear_keepUndo(s) ==
  [s EXCEPT !.rect = Null, !.redoStack = << >>]

handleClear(s) ==
  [s EXCEPT !.rect = Null, !.undoStack = << >>, !.redoStack = << >>]

(* ---------------------------------------------------------------------- *)
(* State                                                                   *)
(* ---------------------------------------------------------------------- *)
VARIABLES
  rect,            \* the displayed quadrilateral, Null or Undefined if absent
  isDrawing,       \* a draw gesture is in progress
  draggingPoint,   \* key of the corner being dragged, or NoKey
  undoStack,       \* committed snapshots, most recent last
  redoStack,       \* undone snapshots, most recent first
  startPoint,      \* startPointRef.current
  canvas,          \* what the canvas pixels show
  loads,           \* image loads started by an effect run and not completed
  exported,        \* the canvas contents handed out by the last Save
  ev,              \* history: the event handled last
  prev,            \* history: the component state before that event
  run,             \* history: the current run of commits followed by undos
  steps            \* history: number of events handled

progVars == << rect, isDrawing, draggingPoint, undoStack, redoStack, startPoint >>
renderVars == << canvas, loads, exported >>
vars == << rect, isDrawing, draggingPoint, undoStack, redoStack, startPoint,
           canvas, loads, exported, ev, prev, run, steps >>

Cur ==
  [ rect          |-> rect,
    isDrawing     |-> isDrawing,
    draggingPoint |-> draggingPoint,
    undoStack     |-> undoStack,
    redoStack     |-> redoStack,
    startPoint    |-> startPoint ]

\* The Undo and Redo buttons are enabled (their disabled props are false).
undoAvailable(s) == ~(Len(s.undoStack) = 0)
redoAvailable(s) == ~(Len(s.redoStack) = 0)

NoGesture(s) == ~s.isDrawing /\ s.draggingPoint = NoKey

\* A pointer-up commits when it pushes onto undoStack.
Commits(s, n) == Len(n.undoStack) = Len(s.undoStack) + 1

\* Two displayed values are the same shape; null and undefined both show
\* no shape.
SameShape(a, b) == IF Truthy(a) /\ Truthy(b) THEN a = b ELSE ~Truthy(a) /\ ~Truthy(b)

(* ---------------------------------------------------------------------- *)
(* History of the current run "N commits, then N undos"                    *)
(* ---------------------------------------------------------------------- *)
\* base: the shape displayed, with no gesture in progress, before the first
\* commit of the run; commits: the snapshots pushed, oldest first; undos:
\* the number of Undo commands issued after them.
DeadRun == [live |-> FALSE, base |-> Null, commits |-> << >>, undos |-> 0]

\* The run after a pointer event took state s to state n.
RunAfterPointer(r, s, n) ==
  LET pushed == IF Commits(s, n) THEN << n.undoStack[Len(n.undoStack)] >> ELSE << >>
  IN  IF ~r.live \/ r.undos > 0
      THEN IF NoGesture(s)
           THEN [live |-> TRUE, base |-> s.rect, commits |-> pushed, undos |-> 0]
           ELSE DeadRun
      ELSE IF Len(r.commits) >= 1 /\ Truthy(s.rect) /\ ~Truthy(n.rect)
           THEN DeadRun
           ELSE [r EXCEPT !.base = IF Len(r.commits) = 0 /\ NoGesture(s)
                                   THEN s.rect ELSE r.base,
                          !.commits = r.commits \o pushed]

\* The run after an Undo command issued in state s.
RunAfterUndo(r, s) ==
  IF r.live /\ Len(r.commits) >= 1 /\ r.undos < Len(r.commits) /\ NoGesture(s)
  THEN [r EXCEPT !.undos = r.undos + 1]
  ELSE DeadRun

\* The run is complete: N >= 1 commits have been followed by N undos.
RunDone == run.live /\ Len(run.commits) >= 1 /\ run.undos = Len(run.commits)

(* ---------------------------------------------------------------------- *)
(* Initial state and actions                                               *)
(* ---------------------------------------------------------------------- *)
(* The renderer.  The effect runs after the first render and after every
   render in which rect, isDrawing or draggingPoint differ from the render
   before; each run starts an image load whose onload draws the background
   and then the rect of that render.  A render that replaces rect by an equal
   object starts a load that draws the picture of the render before it, so
   comparing values instead of object identities loses no reachable canvas.
   Nothing cancels the onload of a superseded render, and the completion
   order of the loads is not fixed.  Two loads in flight that captured the
   same rect draw the same picture, so the loads in flight are kept as the
   set of the rects they captured.  *)
\* The pixels after ctx.drawImage(img, ...) followed by draw(ctx) for the
\* rect r of the render that started the load.
draw(r) == [bg |-> TRUE, shape |-> IF Truthy(r) THEN r ELSE Null]

\* The canvas element before anything was drawn on it.
BlankCanvas == [bg |-> FALSE, shape |-> Null]

\* The dependency list of the effect in state s.
deps(s) == << s.rect, s.isDrawing, s.draggingPoint >>

\* The render of state n after state s: the effect starts a load if the
\* dependencies changed.
useEffect(s, n) ==
  /\ loads' = IF deps(n) # deps(s) THEN loads \cup {n.rect} ELSE loads
  /\ Cardinality(loads') <= MaxLoads
  /\ UNCHANGED << canvas, exported >>

NoEvent == [op |-> "init", p |-> Pt(0, 0)]

\* History: Clear has been issued and only Undo or Redo commands since.
sinceClear(op) ==
  \/ op = "clear"
  \/ op \in {"undo", "redo"} /\ prev.clr

Init ==
  /\ rect = InitState.rect
  /\ isDrawing = InitState.isDrawing
  /\ draggingPoint = InitState.draggingPoint
  /\ undoStack = InitState.undoStack
  /\ redoStack = InitState.redoStack
  /\ startPoint = InitState.startPoint
  /\ canvas = BlankCanvas
  /\ loads = {InitState.rect}
  /\ exported = BlankCanvas
  /\ ev = NoEvent
  /\ prev = [st |-> InitState, op |-> "init", clr |-> FALSE]
  /\ run = [live |-> TRUE, base |-> Null, commits |-> << >>, undos |-> 0]
  /\ steps = 0

\* The handler for event e takes the component to state n.
Becomes(e, n, r) ==
  /\ rect' = n.rect
  /\ isDrawing' = n.isDrawing
  /\ draggingPoint' = n.draggingPoint
  /\ undoStack' = n.undoStack
  /\ redoStack' = n.redoStack
  /\ startPoint' = n.startPoint
  /\ ev' = e
  /\ prev' = [st |-> Cur, op |-> ev.op, clr |-> sinceClear(ev.op)]
  /\ run' = r
  /\ steps' = steps + 1

\* The handler together with the render that follows it.  The renderer only
\* writes the canvas and never a state cell of the component, so the
\* interaction can also be followed on its own (render = FALSE), with the
\* canvas and the image loads left as they are.
Handled(e, n, r, render) ==
  /\ Becomes(e, n, r)
  /\ IF render THEN useEffect(Cur, n) ELSE UNCHANGED renderVars

OnMouseDown(limit, render) ==
  /\ steps < limit
  /\ \E p \in EventPoints :
       LET n == handleMouseDown(Cur, p)
       IN  Handled([op |-> "down", p |-> p], n, RunAfterPointer(run, Cur, n), render)

OnMouseMove(limit, render) ==
  /\ steps < limit
  /\ \E p \in EventPoints :
       LET n == handleMouseMove(Cur, p)
       IN  Handled([op |-> "move", p |-> p], n, RunAfterPointer(run, Cur, n), render)

OnMouseUp(limit, render) ==
  /\ steps < limit
  /\ \E p \in EventPoints :
       LET n == handleMouseUp(Cur, p)
       IN  Handled([op |-> "up", p |-> p], n, RunAfterPointer(run, Cur, n), render)

OnUndo(limit, render) ==
  /\ steps < limit
  /\ Handled([op |-> "undo", p |-> Pt(0, 0)], handleUndo(Cur),
             RunAfterUndo(run, Cur), render)

OnRedo(limit, render) ==
  /\ steps < limit
  /\ Handled([op |-> "redo", p |-> Pt(0, 0)], handleRedo(Cur), DeadRun, render)

OnClear(limit, render) ==
  /\ steps < limit
  /\ Handled([op |-> "clear", p |-> Pt(0, 0)], handleClear(Cur), DeadRun, render)

(* The interaction state machine on its own. *)
MouseDown == OnMouseDown(MaxSteps, FALSE)
MouseMove == OnMouseMove(MaxSteps, FALSE)
MouseUp == OnMouseUp(MaxSteps, FALSE)
Undo == OnUndo(MaxSteps, FALSE)
Redo == OnRedo(MaxSteps, FALSE)
Clear == OnClear(MaxSteps, FALSE)

Next == MouseDown \/ MouseMove \/ MouseUp \/ Undo \/ Redo \/ Clear

Spec == Init /\ [][Next]_vars

(* The interaction together with the renderer, over a shorter horizon. *)
RenderMouseDown == OnMouseDown(MaxRenderSteps, TRUE)
RenderMouseMove == OnMouseMove(MaxRenderSteps, TRUE)
RenderMouseUp == OnMouseUp(MaxRenderSteps, TRUE)
RenderUndo == OnUndo(MaxRenderSteps, TRUE)
RenderRedo == OnRedo(MaxRenderSteps, TRUE)
RenderClear == OnClear(MaxRenderSteps, TRUE)

\* handleSave: the canvas contents are serialised and offered for download.
Save ==
  /\ steps < MaxRenderSteps
  /\ exported' = canvas
  /\ ev' = [op |-> "save", p |-> Pt(0, 0)]
  /\ prev' = [st |-> Cur, op |-> ev.op, clr |-> sinceClear(ev.op)]
  /\ steps' = steps + 1
  /\ UNCHANGED << progVars, canvas, loads, run >>

\* img.onload of one of the loads in flight.
ImageLoaded ==
  \E r \in loads :
    /\ canvas' = draw(r)
    /\ loads' = loads \ {r}
    /\ ev' = [op |-> "load", p |-> Pt(0, 0)]
    /\ prev' = [st |-> Cur, op |-> ev.op, clr |-> sinceClear(ev.op)]
    /\ UNCHANGED << progVars, exported, run, steps >>

NextRender ==
  \/ RenderMouseDown \/ RenderMouseMove \/ RenderMouseUp
  \/ RenderUndo \/ RenderRedo \/ RenderClear
  \/ Save \/ ImageLoaded

SpecRender == Init /\ [][NextRender]_vars

TypeOK ==
  /\ isDrawing \in BOOLEAN
  /\ draggingPoint \in {NoKey, "topLeft", "topRight", "bottomLeft", "bottomRight"}
  /\ steps \in 0..MaxSteps

(* ---------------------------------------------------------------------- *)
(* Properties                                                              *)
(* ---------------------------------------------------------------------- *)
Before == prev.st

\* The squared distance from the start point held before the event to the
\* point of the event.
ReleaseDist2 ==
  (ev.p.x - Before.startPoint.x) * (ev.p.x - Before.startPoint.x)
    + (ev.p.y - Before.startPoint.y) * (ev.p.y - Before.startPoint.y)

\* A pointer-up ended a corner drag of a displayed quadrilateral.
DragReleased ==
  /\ ev.op = "up"
  /\ Before.draggingPoint # NoKey
  /\ ~Before.isDrawing
  /\ Truthy(Before.rect)

\* C1: a pointer-up that ends a corner drag always pushes the current
\* quadrilateral onto undoStack and leaves it displayed, wherever the
\* release point is.
C1_DragAlwaysCommits ==
  DragReleased =>
    /\ undoStack = Append(Before.undoStack, Before.rect)
    /\ rect = Before.rect

\* C2: a pointer-up received while no gesture is active changes neither the
\* displayed quadrilateral nor undoStack nor redoStack.
C2_IdleUpIsNoOp ==
  (ev.op = "up" /\ NoGesture(Before)) =>
    /\ rect = Before.rect
    /\ undoStack = Before.undoStack
    /\ redoStack = Before.redoStack

\* A pointer-up ended a draw gesture whose quadrilateral is displayed.
DrawReleased ==
  /\ ev.op = "up"
  /\ Before.isDrawing
  /\ Truthy(Before.rect)

ExampleRect ==
  [ topLeft     |-> Pt(100, 100),
    topRight    |-> Pt(200, 100),
    bottomLeft  |-> Pt(100, 150),
    bottomRight |-> Pt(200, 150) ]

\* C3: a pointer-up that ends a draw gesture discards the quadrilateral and
\* adds no history entry when the release is closer than 5 px to the
\* gesture start point, and otherwise (5 px or more) keeps the rectangle
\* and pushes it as exactly one new undoStack entry; a first draw from
\* (100,100) to (200,150) leaves the rectangle (100,100),(200,100),
\* (100,150),(200,150) as the only entry, and releasing it at (102,101)
\* leaves no shape and no entry.
C3_DrawReleaseThreshold ==
  /\ DrawReleased =>
       IF ReleaseDist2 < 25
       THEN /\ ~Truthy(rect)
            /\ undoStack = Before.undoStack
            /\ redoStack = Before.redoStack
       ELSE /\ rect = Before.rect
            /\ undoStack = Append(Before.undoStack, Before.rect)
  /\ (DrawReleased /\ steps = 3 /\ prev.op = "move" /\ Before.rect = ExampleRect) =>
       IF ev.p = Pt(102, 101)
       THEN ~Truthy(rect) /\ undoStack = << >>
       ELSE ev.p = Pt(200, 150) => rect = ExampleRect /\ undoStack = << ExampleRect >>

\* The first draw gesture went from (100,100) to (200,150) and was released
\* there.
C3_Witness ==
  /\ DrawReleased
  /\ steps = 3
  /\ prev.op = "move"
  /\ Before.startPoint = Pt(100, 100)
  /\ ev.p = Pt(200, 150)
  /\ rect = ExampleRect
  /\ undoStack = << ExampleRect >>

\* C4: after N >= 1 commits followed by N undos, started with no gesture in
\* progress, the displayed quadrilateral is the one displayed before the
\* first of those commits (absent if none was displayed).
C4_RoundTrip ==
  RunDone => SameShape(rect, run.base)

Reverse(q) == [i \in 1..Len(q) |-> q[Len(q) + 1 - i]]

\* C5 as stated: after N commits followed by N undos, redoStack holds the N
\* committed snapshots in reverse commit order.
C5_RedoReversed ==
  RunDone => redoStack = Reverse(run.commits)

\* C5 as amended: after N commits followed by N undos, redoStack holds
\* exactly the N committed snapshots, front to back in commit order (the
\* oldest commit at the front).
C5_RedoInCommitOrder ==
  RunDone => /\ Len(redoStack) = Len(run.commits)
             /\ redoStack = run.commits

\* Two different snapshots were committed and both were undone.
C5_Witness ==
  /\ RunDone
  /\ Len(run.commits) = 2
  /\ run.commits[1] # run.commits[2]

\* The last event was a pointer-up that pushed onto undoStack.
Committed == ev.op = "up" /\ Commits(Before, Cur)

\* C6: every commit leaves redoStack empty, whatever it held before.
C6_CommitClearsRedo ==
  Committed => redoStack = << >>

\* A commit was made while redoStack held undone entries.
C6_Witness ==
  /\ Committed
  /\ Len(Before.redoStack) >= 1
  /\ redoStack = << >>

\* C7: Undo with a non-empty undoStack removes its last entry, puts that
\* entry at the front of redoStack and displays the new last entry of
\* undoStack, or nothing when undoStack became empty; Undo with an empty
\* undoStack changes nothing.
C7_Undo ==
  ev.op = "undo" =>
    IF Len(Before.undoStack) >= 1
    THEN /\ undoStack \o << Before.undoStack[Len(Before.undoStack)] >> = Before.undoStack
         /\ redoStack = << Before.undoStack[Len(Before.undoStack)] >> \o Before.redoStack
         /\ IF undoStack = << >>
            THEN ~Truthy(rect)
            ELSE rect = undoStack[Len(undoStack)]
    ELSE Cur = Before

\* An Undo replaced the displayed shape by a different, older snapshot.
C7_Witness ==
  /\ ev.op = "undo"
  /\ Len(Before.undoStack) >= 2
  /\ Truthy(Before.rect)
  /\ rect = undoStack[Len(undoStack)]
  /\ rect # Before.rect

\* C8: Redo with a non-empty redoStack removes its front entry, appends it
\* to undoStack and displays it; Redo with an empty redoStack changes
\* nothing.
C8_Redo ==
  ev.op = "redo" =>
    IF Len(Before.redoStack) >= 1
    THEN /\ << Before.redoStack[1] >> \o redoStack = Before.redoStack
         /\ undoStack = Before.undoStack \o << Before.redoStack[1] >>
         /\ rect = Before.redoStack[1]
    ELSE Cur = Before

\* A Redo took the front of a redoStack with two entries and changed what
\* is displayed.
C8_Witness ==
  /\ ev.op = "redo"
  /\ Len(Before.redoStack) >= 2
  /\ rect = Before.redoStack[1]
  /\ ~SameShape(rect, Before.rect)

\* C9: Clear empties undoStack and redoStack and removes the displayed
\* quadrilateral, and every Undo or Redo issued after it with no other
\* event in between changes nothing.
C9_Clear ==
  /\ ev.op = "clear" =>
       /\ ~Truthy(rect)
       /\ undoStack = << >>
       /\ redoStack = << >>
  /\ (ev.op \in {"undo", "redo"} /\ prev.clr) => Cur = Before

\* Clear was issued with a shape displayed and entries on both stacks.
C9_Witness ==
  /\ ev.op = "clear"
  /\ Truthy(Before.rect)
  /\ Len(Before.undoStack) >= 1
  /\ Len(Before.redoStack) >= 1
  /\ ~Truthy(rect)

\* C10: after Undo, Redo or Clear no gesture is in progress: isDrawing is
\* false and draggingPoint is none.
C10_CommandsResetGesture ==
  ev.op \in {"undo", "redo", "clear"} => NoGesture(Cur)

\* C11: after every pointer-up the whole interaction session state is
\* reset: isDrawing is false, draggingPoint is none and the gesture start
\* point is none.
C11_UpResetsSession ==
  ev.op = "up" =>
    /\ ~isDrawing
    /\ draggingPoint = NoKey
    /\ ~Truthy(startPoint)

\* The corner named k of the quadrilateral displayed before the event is
\* within 6 px of the point of the event.
InReach(k) ==
  (ev.p.x - Before.rect[k].x) * (ev.p.x - Before.rect[k].x)
    + (ev.p.y - Before.rect[k].y) * (ev.p.y - Before.rect[k].y) <= 36

\* The corner a pointer-down has to pick: the first within reach in the
\* order topLeft, topRight, bottomLeft, bottomRight; NoKey if none is.
FirstInReach ==
  IF InReach("topLeft") THEN "topLeft"
  ELSE IF InReach("topRight") THEN "topRight"
  ELSE IF InReach("bottomLeft") THEN "bottomLeft"
  ELSE IF InReach("bottomRight") THEN "bottomRight"
  ELSE NoKey

\* C12: a pointer-down on an existing quadrilateral selects for dragging
\* the first corner, in the order topLeft, topRight, bottomLeft,
\* bottomRight, that is within 6 px of the down point, also when several
\* corners are within reach and after drags, undo or redo reshaped it.
C12_FirstCornerWins ==
  (ev.op = "down" /\ Truthy(Before.rect) /\ FirstInReach # NoKey) =>
    draggingPoint = FirstInReach

\* A pointer-down on a reshaped quadrilateral found topLeft out of reach
\* and three coincident corners within reach, and took topRight.
C12_Witness ==
  /\ ev.op = "down"
  /\ Truthy(Before.rect)
  /\ Before.draggingPoint = NoKey
  /\ ~InReach("topLeft")
  /\ InReach("topRight") /\ InReach("bottomLeft") /\ InReach("bottomRight")
  /\ Before.rect.topRight = Before.rect.bottomLeft
  /\ draggingPoint = "topRight"

\* C13: a pointer-down while a quadrilateral exists and no corner is
\* within reach of the down point changes nothing: no new shape is
\* started, and the quadrilateral, both stacks, isDrawing and
\* draggingPoint stay as they were.
C13_MissIsIgnored ==
  (ev.op = "down" /\ Truthy(Before.rect) /\ FirstInReach = NoKey) =>
    Cur = Before

\* A pointer-down missed every corner of a settled quadrilateral.
C13_Witness ==
  /\ ev.op = "down"
  /\ Truthy(Before.rect)
  /\ NoGesture(Before)
  /\ Len(Before.undoStack) >= 1
  /\ FirstInReach = NoKey
  /\ rect = Before.rect

UndoFlagChanged == undoAvailable(Cur) # undoAvailable(Before)
RedoFlagChanged == redoAvailable(Cur) # redoAvailable(Before)

\* C14 as stated: in every single user action at most one of the flags
\* 'undo available' and 'redo available' changes its value.
C14_OneFlagPerAction ==
  ~(UndoFlagChanged /\ RedoFlagChanged)

\* C14 as amended: in every pointer-down, pointer-move and pointer-up at
\* most one of the two flags changes; Undo changes both exactly when it
\* moves the only entry of undoStack onto an empty redoStack, Redo exactly
\* when it moves the only entry of redoStack onto an empty undoStack, and
\* Clear exactly when both stacks were non-empty.
C14_OneFlagPerPointerAction ==
  /\ ev.op \in {"down", "move", "up"} => ~(UndoFlagChanged /\ RedoFlagChanged)
  /\ ev.op = "undo" =>
       ((UndoFlagChanged /\ RedoFlagChanged)
          <=> (Len(Before.undoStack) = 1 /\ Len(Before.redoStack) = 0))
  /\ ev.op = "redo" =>
       ((UndoFlagChanged /\ RedoFlagChanged)
          <=> (Len(Before.redoStack) = 1 /\ Len(Before.undoStack) = 0))
  /\ ev.op = "clear" =>
       ((UndoFlagChanged /\ RedoFlagChanged)
          <=> (Len(Before.undoStack) >= 1 /\ Len(Before.redoStack) >= 1))

\* A pointer-up committed with undone entries on redoStack: the redo flag
\* went off and the undo flag, already on, stayed.
C14_Witness ==
  /\ ev.op = "up"
  /\ RedoFlagChanged
  /\ ~UndoFlagChanged
  /\ Len(undoStack) = Len(Before.undoStack) + 1

\* C17: after every pointer-move of a draw gesture the quadrilateral is
\* the axis-aligned rectangle spanned by the gesture start point and the
\* pointer position p: topLeft = start, topRight = (p.x, start.y),
\* bottomLeft = (start.x, p.y), bottomRight = p.
C17_DrawMoveFromStart ==
  (ev.op = "move" /\ Before.isDrawing /\ Truthy(Before.rect)) =>
    rect = [ topLeft     |-> Before.startPoint,
             topRight    |-> Pt(ev.p.x, Before.startPoint.y),
             bottomLeft  |-> Pt(Before.startPoint.x, ev.p.y),
             bottomRight |-> ev.p ]

\* A pointer-move arrived during a corner drag of a displayed
\* quadrilateral.
DragMoved ==
  /\ ev.op = "move"
  /\ Before.draggingPoint # NoKey
  /\ ~Before.isDrawing
  /\ Truthy(Before.rect)

\* C18: a pointer-move never changes undoStack or redoStack; during a
\* corner drag it replaces exactly the dragged corner by the pointer
\* position and leaves the other three corners as they were; with no
\* active gesture it changes nothing.
C18_MoveKeepsHistory ==
  ev.op = "move" =>
    /\ undoStack = Before.undoStack
    /\ redoStack = Before.redoStack
    /\ DragMoved =>
         /\ rect[Before.draggingPoint] = ev.p
         /\ \A k \in {"topLeft", "topRight", "bottomLeft", "bottomRight"} :
              k # Before.draggingPoint => rect[k] = Before.rect[k]
    /\ NoGesture(Before) => Cur = Before

\* A drag moved a corner of the quadrilateral whose snapshot is the top of
\* undoStack, and the snapshot kept the old corner.
C18_Witness ==
  /\ DragMoved
  /\ Len(undoStack) >= 1
  /\ Before.rect = undoStack[Len(undoStack)]
  /\ rect # Before.rect
  /\ rect[Before.draggingPoint] = ev.p

\* C19: whenever no gesture is in progress the displayed quadrilateral is
\* the last entry of undoStack, and it is absent exactly when undoStack is
\* empty.
C19_DisplayIsTopOfUndo ==
  NoGesture(Cur) =>
    IF undoStack = << >>
    THEN ~Truthy(rect)
    ELSE rect = undoStack[Len(undoStack)]

\* C20: isDrawing and draggingPoint are never set at the same time.
C20_OneGestureAtATime ==
  ~(isDrawing /\ draggingPoint # NoKey)

\* C15: a Save issued immediately after Clear, with no other event and no
\* image-load completion in between, exports a canvas that shows no
\* outline and no handles of a quadrilateral.
C15_SaveAfterClear ==
  (ev.op = "save" /\ prev.op = "clear") => ~Truthy(exported.shape)

\* C16: once all outstanding image loads have completed, the canvas shows
\* the background and the current quadrilateral state, in whatever order
\* the load-completion callbacks fired.
C16_CanvasShowsLatest ==
  loads = {} => canvas = draw(rect)

====
